---- MODULE Spec2Model ----
(***************************************************************************)
(* The two-phase junction chain testing script (main.go, second program).  *)
(* One process with a main goroutine, the signal-handler goroutine, the    *)
(* spinner goroutine of executeStep, the countdown goroutine of            *)
(* waitForVotingPeriod and the goroutine of `go startChain`; the node      *)
(* child processes and the file testing_state.json are its environment.    *)
(***************************************************************************)
EXTENDS Integers, Sequences, FiniteSets, TLC

\* ------------------------------------------------------------------ bounds
\* Largest voting-period duration (seconds) the user or VOTING_PERIOD gives.
MaxDuration == 2
\* The durations explored: strconv.Atoi accepts zero and negative numbers.
Durations == -1..MaxDuration
\* Longest BRIDGE_WORKERS value enumerated character by character.
MaxLen == 3
\* Longest bridge_workers list of the session records saved and loaded.
MaxWorkers == 2

\* ------------------------------------------------------- program constants
\* len(spinner) in showLoadingAnimation.
SpinnerLen == 10

\* ------------------------------------------------- testing_state.json model
\* TestingState, restricted to the fields the control flow reads (Phase,
\* ProposalCreated) and one field it never reads (ChainRunning).
ZeroState == [Phase |-> "", ProposalCreated |-> FALSE, ChainRunning |-> FALSE]

\* No file on disk.
NoFile == [kind |-> "absent", bad |-> "none", rec |-> ZeroState]

\* A file holding the JSON encoding of record r.
OkFile(r) == [kind |-> "ok", bad |-> "none", rec |-> r]

\* A file that is not JSON at all (truncated, garbage).
SyntaxFile == [kind |-> "syntax", bad |-> "none", rec |-> ZeroState]

\* A file that is valid JSON but gives field f a value of the wrong JSON type;
\* rec holds what the other fields say.
TypeFile(f, r) == [kind |-> "type", bad |-> f, rec |-> r]

\* The value of field f of record r, or its zero value when f is the field
\* that json.Unmarshal skips.
Skip(r, f) ==
    [Phase |-> IF f = "phase" THEN "" ELSE r.Phase,
     ProposalCreated |-> IF f = "proposal_created" THEN FALSE ELSE r.ProposalCreated,
     ChainRunning |-> IF f = "chain_running" THEN FALSE ELSE r.ChainRunning]

\* json.Unmarshal(content, &state) on a zero TestingState: a syntax error
\* leaves the target untouched; a type mismatch skips that field and decodes
\* the rest; the error it returns is discarded by loadState.
Unmarshal(f) ==
    CASE f.kind = "ok" -> f.rec
      [] f.kind = "type" -> Skip(f.rec, f.bad)
      [] OTHER -> ZeroState

\* loadState: the fresh-start record when the file cannot be read, else
\* whatever Unmarshal left in the record.
loadState(f) ==
    IF f.kind = "absent"
    THEN [Phase |-> "setup", ProposalCreated |-> FALSE, ChainRunning |-> FALSE]
    ELSE Unmarshal(f)

\* saveState when the write succeeds: the file holds the record's encoding.
saveState(r) == OkFile(r)

\* clearState: os.Remove, its error ignored.
clearState == NoFile

\* The state files a run can find at startup.
InitFiles ==
    {NoFile, SyntaxFile}
    \cup {OkFile([Phase |-> p, ProposalCreated |-> c, ChainRunning |-> FALSE]) :
             p \in {"setup", "proposal_submission"}, c \in BOOLEAN}
    \cup {TypeFile(f, Skip([Phase |-> "proposal_submission", ProposalCreated |-> TRUE,
                            ChainRunning |-> FALSE], f)) :
             f \in {"phase", "proposal_created", "chain_running"}}

\* ------------------------------------------------------------ control flow
\* A dispatch that looks at proposal_created instead of phase.
DispatchOnCreated(s) == IF s.ProposalCreated THEN "submission" ELSE "setup"

\* main's dispatch on the loaded record.
Dispatch(s) == IF s.Phase = "proposal_submission" THEN "submission" ELSE "setup"

\* handleProposalSubmission without its guard.
NoProposalUnguarded(s) == FALSE

\* handleProposalSubmission's guard: it returns at once without a proposal.
NoProposal(s) == ~s.ProposalCreated

\* executeStep going on after a failed action.
StepFatalIgnored(err) == FALSE

\* executeStep's test of the action's result.
StepFatal(err) == err # "nil"

\* The eight steps handleChainSetup runs through executeStep, in order.
SetupSteps == <<"rm", "init", "keys", "add-genesis-account", "gentx",
                "collect-gentxs", "jq", "mv">>

\* The vote strings of the interactive switch in voteOnProposal.
VoteOfChoice(c) ==
    CASE c = "1" -> "yes"
      [] c = "2" -> "no"
      [] c = "3" -> "no_with_veto"
      [] c = "4" -> "abstain"
      [] OTHER -> "invalid"

\* The values VOTE_OPTION can have in the environment ("": unset).
EnvVotes == {"", "yes", "maybe"}

\* The four options the governance module accepts.
ValidVotes == {"yes", "no", "abstain", "no_with_veto"}

\* The node child processes: the one startChain starts, the one step 10 starts.
Children == {"chain", "step10"}

VARIABLES
    proc,        \* "running", "exit0", "exit1": the process and its exit code
    pc,          \* position of the main goroutine
    state,       \* main's `state` (loadState at startup)
    cppState,    \* createParameterChangeProposal's `state`
    file,        \* testing_state.json
    startFile,   \* testing_state.json as the run found it
    handler,     \* "none", "setup", "submission": the sequence main entered
    cmds,        \* external commands invoked by main and startChain, in order
    step,        \* the step executeStep is running
    stepErr,     \* the error the step's action returned
    spinner,     \* "none", "running", "stopped": showLoadingAnimation
    spinIdx,     \* i % len(spinner)
    countdown,   \* "none", "running", "stopped", "finished"
    cdI,         \* showCountdownAnimation's i
    duration,    \* waitForVotingPeriod's `duration`
    envVote,     \* VOTE_OPTION as getEnv reads it; "?" before the first read
    vote,        \* voteOnProposal's `vote`
    voteRet,     \* where voteOnProposal returns to
    scBy,        \* "none", "main", "go": who runs startChain
    scPc,        \* position inside startChain
    chainProcess,\* the global *exec.Cmd
    child,       \* status of each node child process
    sigChan,     \* signals buffered in sigChan
    hpc,         \* position of the signal-handler goroutine
    sigs,        \* what the handler did to each child, in order
    cpp,         \* createParameterChangeProposal on its own: locals and files
    codec,       \* saveState in one process, loadState in the next
    boot,        \* the configuration main builds and the setup commands' arguments
    genesis,     \* steps 7 and 8 of the setup: genesis.json and genesis.json.tmp
    single       \* the single-run script (main.go 1-477): position and commands

mainVars == <<proc, pc, state, cppState, file, startFile, handler, cmds, step, stepErr,
          spinner, spinIdx, countdown, cdI, duration, envVote, vote, voteRet, scBy, scPc,
          chainProcess, child, sigChan, hpc, sigs>>

\* The variables of the functions that are also run on their own.
aux == <<cpp, codec, boot, genesis, single>>

vars == <<mainVars, aux>>

\* createParameterChangeProposal is not being run on its own.
CppOff == [pc |-> "off"]

\* saveState and loadState are not being run on their own.
CodecOff == [pc |-> "off"]

\* The configuration is not being followed on its own.
BootOff == [pc |-> "off"]

\* Steps 7 and 8 are not being run on their own.
GenesisOff == [pc |-> "off"]

\* The single-run script is not being run.
SingleOff == [pc |-> "off"]

\* var chainProcess *exec.Cmd, nil.
NilCmd == [set |-> FALSE, Process |-> FALSE, ProcessState |-> "nil"]

Init ==
    /\ proc = "running"
    /\ pc = "start"
    /\ state = ZeroState
    /\ cppState = ZeroState
    /\ file \in InitFiles
    /\ startFile = file
    /\ handler = "none"
    /\ cmds = <<>>
    /\ step = "none"
    /\ stepErr = "nil"
    /\ spinner = "none"
    /\ spinIdx = 0
    /\ countdown = "none"
    /\ cdI = 0
    /\ duration = 0
    /\ envVote = "?"
    /\ vote = ""
    /\ voteRet = "none"
    /\ scBy = "none"
    /\ scPc = "idle"
    /\ chainProcess = NilCmd
    /\ child = [c \in Children |-> "none"]
    /\ sigChan = 0
    /\ hpc = "recv"
    /\ sigs = [c \in Children |-> <<>>]
    /\ cpp = CppOff
    /\ codec = CodecOff
    /\ boot = BootOff
    /\ genesis = GenesisOff
    /\ single = SingleOff

\* One invocation of an external command: its name, the argument the claims
\* look at, and whether it ran and exited with status 0.
Cmd(name, arg, ok) == [cmd |-> name, arg |-> arg, ok |-> ok]

\* ------------------------------------------------------------------- main
\* main up to the dispatch: setupSignalHandling, loadConfig, loadEnvFile,
\* loadState, then one of the two handlers.
Startup ==
    /\ proc = "running" /\ pc = "start"
    /\ state' = loadState(file)
    /\ handler' = Dispatch(loadState(file))
    /\ IF Dispatch(loadState(file)) = "submission"
       THEN pc' = "hps_guard" /\ step' = step
       ELSE pc' = "es_begin" /\ step' = SetupSteps[1]
    /\ UNCHANGED <<aux, proc, cppState, file, startFile, cmds, stepErr, spinner, spinIdx,
                   countdown, cdI, duration, envVote, vote, voteRet, scBy, scPc,
                   chainProcess, child, sigChan, hpc, sigs>>

\* main returns: the process exits with status 0.
MainReturn ==
    /\ proc = "running" /\ pc = "main_return"
    /\ proc' = "exit0"
    /\ UNCHANGED <<aux, pc, state, cppState, file, startFile, handler, cmds, step, stepErr,
                   spinner, spinIdx, countdown, cdI, duration, envVote, vote, voteRet,
                   scBy, scPc, chainProcess, child, sigChan, hpc, sigs>>

\* ------------------------------------------------------------ executeStep
\* executeStep up to the call of the action: the spinner goroutine starts on
\* a fresh unbuffered channel.
EsBegin ==
    /\ proc = "running" /\ pc = "es_begin"
    /\ spinner' = "running" /\ spinIdx' = 0
    /\ stepErr' = "nil"
    /\ pc' = "es_action"
    /\ UNCHANGED <<aux, proc, state, cppState, file, startFile, handler, cmds, step,
                   countdown, cdI, duration, envVote, vote, voteRet, scBy, scPc,
                   chainProcess, child, sigChan, hpc, sigs>>

\* The commands a step's action invokes and the error it returns, for every
\* outcome of the commands: a set of <<commands, err>>.
ActionOutcomes(s, v) ==
    CASE s = "keys" ->
           {<< <<Cmd("keys show", "", TRUE)>>, "nil" >>}
           \cup {<< <<Cmd("keys show", "", FALSE), Cmd("keys add", "", ok)>>,
                    IF ok THEN "nil" ELSE "err" >> : ok \in BOOLEAN}
      [] s = "jq" ->
           {<< <<Cmd("jq", "", FALSE)>>, "err" >>}
           \cup {<< <<Cmd("jq", "", TRUE)>>, e >> : e \in {"nil", "err"}}
      [] s = "vote" ->
           {<< <<Cmd("vote", v, ok)>>, IF ok THEN "nil" ELSE "err" >> : ok \in BOOLEAN}
      [] OTHER ->
           {<< <<Cmd(s, "", ok)>>, IF ok THEN "nil" ELSE "err" >> : ok \in BOOLEAN}

\* err := action(): the step's commands run; main then blocks in `done <- true`.
EsAction ==
    /\ proc = "running" /\ pc = "es_action"
    /\ \E o \in ActionOutcomes(step, vote) :
          /\ cmds' = cmds \o o[1]
          /\ stepErr' = o[2]
    /\ pc' = "es_sending"
    /\ UNCHANGED <<aux, proc, state, cppState, file, startFile, handler, step, spinner,
                   spinIdx, countdown, cdI, duration, envVote, vote, voteRet, scBy,
                   scPc, chainProcess, child, sigChan, hpc, sigs>>

\* A select that never finds its receive case ready.
SendPendingNever(p, at) == FALSE

\* The receive case of a select is ready when the sender is blocked in its send.
SendPending(p, at) == p = at

\* showLoadingAnimation, `case <-done`: the rendezvous completes main's send.
SpinnerRecv ==
    /\ proc = "running" /\ spinner = "running"
    /\ SendPending(pc, "es_sending")
    /\ spinner' = "stopped" /\ spinIdx' = 0
    /\ pc' = "es_check"
    /\ UNCHANGED <<aux, proc, state, cppState, file, startFile, handler, cmds, step, stepErr,
                   countdown, cdI, duration, envVote, vote, voteRet, scBy, scPc,
                   chainProcess, child, sigChan, hpc, sigs>>

\* showLoadingAnimation, `default`: the next glyph, a 100 ms sleep, i++.
SpinnerTick ==
    /\ proc = "running" /\ spinner = "running"
    /\ ~SendPending(pc, "es_sending")
    /\ spinIdx' = (spinIdx + 1) % SpinnerLen
    /\ UNCHANGED <<aux, proc, pc, state, cppState, file, startFile, handler, cmds, step,
                   stepErr, spinner, countdown, cdI, duration, envVote, vote, voteRet,
                   scBy, scPc, chainProcess, child, sigChan, hpc, sigs>>

\* Where voteOnProposal returns to: submitProposal's caller continues at the
\* second vote prompt, handleProposalSubmission at clearState.
VoteReturn(r) == IF r = "sp" THEN "hps_prompt" ELSE "hps_clear"

\* The position of main after the step executeStep has just completed.
AfterStep(s, r) ==
    CASE s = "mv" -> "cpp_collect"
      [] s = "submit" -> "sp_prompt"
      [] s = "vote" -> "vp_prompt_wait"
      [] s = "query" -> VoteReturn(r)
      [] OTHER -> "es_begin"

\* A setup that goes from its first step straight to its last.
NextStepLast(s) == SetupSteps[Len(SetupSteps)]

\* The step that follows setup step s.
NextStep(s) ==
    IF \E i \in 1..(Len(SetupSteps) - 1) : SetupSteps[i] = s
    THEN SetupSteps[(CHOOSE i \in 1..(Len(SetupSteps) - 1) : SetupSteps[i] = s) + 1]
    ELSE s

\* executeStep after the send: os.Exit(1) on an error, else the step is done.
EsCheck ==
    /\ proc = "running" /\ pc = "es_check"
    /\ IF StepFatal(stepErr)
       THEN proc' = "exit1" /\ UNCHANGED <<pc, step>>
       ELSE /\ pc' = AfterStep(step, voteRet)
            /\ step' = NextStep(step)
            /\ proc' = proc
    /\ UNCHANGED <<aux, state, cppState, file, startFile, handler, cmds, stepErr, spinner,
                   spinIdx, countdown, cdI, duration, envVote, vote, voteRet, scBy,
                   scPc, chainProcess, child, sigChan, hpc, sigs>>

\* ----------------------------------------- createParameterChangeProposal
\* The prompts, the write of metadata.json and the CID: the function returns
\* early when metadata.json cannot be written or the CID read is empty.
CppCollect ==
    /\ proc = "running" /\ pc = "cpp_collect"
    /\ \E metaOk \in BOOLEAN, cid \in {"", "Qm1", "xyz"} :
          pc' = IF ~metaOk \/ cid = "" THEN "step10" ELSE "cpp_save"
    /\ UNCHANGED <<aux, proc, state, cppState, file, startFile, handler, cmds, step, stepErr,
                   spinner, spinIdx, countdown, cdI, duration, envVote, vote, voteRet,
                   scBy, scPc, chainProcess, child, sigChan, hpc, sigs>>

\* state := loadState(); ...; saveState(state) with its error discarded, then
\* the write of proposal.json, whose failure returns.
CppSave ==
    /\ proc = "running" /\ pc = "cpp_save"
    /\ cppState' = loadState(file)
    /\ \E wrOk \in BOOLEAN : file' = IF wrOk THEN saveState(loadState(file)) ELSE file
    /\ \E propOk \in BOOLEAN : pc' = IF propOk THEN "cpp_prompt" ELSE "step10"
    /\ UNCHANGED <<aux, proc, state, startFile, handler, cmds, step, stepErr, spinner,
                   spinIdx, countdown, cdI, duration, envVote, vote, voteRet, scBy,
                   scPc, chainProcess, child, sigChan, hpc, sigs>>

\* A submit that records the phase alone.
SubmitPhaseOnly(r) == [r EXCEPT !.Phase = "proposal_submission"]

\* The record saved when the user chooses to submit.
SubmitState(r) == [r EXCEPT !.Phase = "proposal_submission", !.ProposalCreated = TRUE]

\* "Do you want to submit this proposal?": yes saves the submission phase and
\* counts down ten seconds; anything else calls startChain in main.
CppPrompt ==
    /\ proc = "running" /\ pc = "cpp_prompt"
    /\ \E yes \in BOOLEAN :
          IF yes
          THEN /\ cppState' = SubmitState(cppState)
               /\ \E wrOk \in BOOLEAN :
                     file' = IF wrOk THEN saveState(SubmitState(cppState)) ELSE file
               /\ pc' = "cpp_go"
               /\ UNCHANGED <<scBy, scPc>>
          ELSE /\ scBy' = "main" /\ scPc' = "check"
               /\ pc' = "in_startChain"
               /\ UNCHANGED <<cppState, file>>
    /\ UNCHANGED <<aux, proc, state, startFile, handler, cmds, step, stepErr, spinner,
                   spinIdx, countdown, cdI, duration, envVote, vote, voteRet,
                   chainProcess, child, sigChan, hpc, sigs>>

\* go startChain(config), then the 15 s sleep.
CppGo ==
    /\ proc = "running" /\ pc = "cpp_go"
    /\ scBy' = "go" /\ scPc' = "check"
    /\ pc' = "cpp_terminal"
    /\ UNCHANGED <<aux, proc, state, cppState, file, startFile, handler, cmds, step, stepErr,
                   spinner, spinIdx, countdown, cdI, duration, envVote, vote, voteRet,
                   chainProcess, child, sigChan, hpc, sigs>>

\* openNewTerminal: gnome-terminal, and xterm when that fails; xterm's result
\* is discarded.
openNewTerminal ==
    /\ proc = "running" /\ pc = "cpp_terminal"
    /\ \/ cmds' = Append(cmds, Cmd("gnome-terminal", "", TRUE))
       \/ \E x \in BOOLEAN :
             cmds' = cmds \o <<Cmd("gnome-terminal", "", FALSE), Cmd("xterm", "", x)>>
    /\ pc' = "step10"
    /\ UNCHANGED <<aux, proc, state, cppState, file, startFile, handler, step, stepErr,
                   spinner, spinIdx, countdown, cdI, duration, envVote, vote, voteRet,
                   scBy, scPc, chainProcess, child, sigChan, hpc, sigs>>

\* -------------------------------------------------------------- startChain
\* isChainRunning: pgrep finds a node of this run or one of somebody else.
isChainRunning(ext) == ext \/ \E c \in Children : child[c] = "running"

\* startChain is over: when main ran it, main goes on to step 10.
ScReturn == IF scBy = "main" THEN "step10" ELSE pc

\* startChain up to the store into the global: return when a node is running,
\* else chainProcess = cmd (not started yet).
ScCheck ==
    /\ proc = "running" /\ scPc = "check"
    /\ \E ext \in BOOLEAN :
          /\ cmds' = Append(cmds, Cmd("pgrep", "", isChainRunning(ext)))
          /\ IF isChainRunning(ext)
             THEN scPc' = "done" /\ pc' = ScReturn /\ UNCHANGED chainProcess
             ELSE /\ scPc' = "start" /\ pc' = pc
                  /\ chainProcess' = [set |-> TRUE, Process |-> FALSE, ProcessState |-> "nil"]
    /\ UNCHANGED <<aux, proc, state, cppState, file, startFile, handler, step, stepErr,
                   spinner, spinIdx, countdown, cdI, duration, envVote, vote, voteRet,
                   scBy, child, sigChan, hpc, sigs>>

\* cmd.Start(): a failure is printed and startChain returns.
ScStart ==
    /\ proc = "running" /\ scPc = "start"
    /\ \E ok \in BOOLEAN :
          /\ cmds' = Append(cmds, Cmd("start", "chain", ok))
          /\ IF ok
             THEN /\ child' = [child EXCEPT !["chain"] = "running"]
                  /\ chainProcess' = [chainProcess EXCEPT !.Process = TRUE]
                  /\ scPc' = "wait" /\ pc' = pc
             ELSE /\ scPc' = "done" /\ pc' = ScReturn
                  /\ UNCHANGED <<child, chainProcess>>
    /\ UNCHANGED <<aux, proc, state, cppState, file, startFile, handler, step, stepErr,
                   spinner, spinIdx, countdown, cdI, duration, envVote, vote, voteRet,
                   scBy, sigChan, hpc, sigs>>

\* cmd.Wait() returns once the child is dead and records how it died: it
\* exited (Exited() is true) or a signal ended it.
ScWait ==
    /\ proc = "running" /\ scPc = "wait"
    /\ child["chain"] = "dead"
    /\ \E how \in {"exited", "signaled"} :
          chainProcess' = [chainProcess EXCEPT !.ProcessState = how]
    /\ scPc' = "done" /\ pc' = ScReturn
    /\ UNCHANGED <<aux, proc, state, cppState, file, startFile, handler, cmds, step, stepErr,
                   spinner, spinIdx, countdown, cdI, duration, envVote, vote, voteRet,
                   scBy, child, sigChan, hpc, sigs>>

\* ----------------------------------------------- handleChainSetup, step 10
\* cmd.Run() of the node: its error is discarded.
Step10Start ==
    /\ proc = "running" /\ pc = "step10"
    /\ \E ok \in BOOLEAN :
          /\ cmds' = Append(cmds, Cmd("start", "step10", ok))
          /\ IF ok
             THEN child' = [child EXCEPT !["step10"] = "running"] /\ pc' = "step10_wait"
             ELSE child' = child /\ pc' = "main_return"
    /\ UNCHANGED <<aux, proc, state, cppState, file, startFile, handler, step, stepErr,
                   spinner, spinIdx, countdown, cdI, duration, envVote, vote, voteRet,
                   scBy, scPc, chainProcess, sigChan, hpc, sigs>>

\* cmd.Run() returns when the node is dead; handleChainSetup and main return.
Step10Wait ==
    /\ proc = "running" /\ pc = "step10_wait"
    /\ child["step10"] = "dead"
    /\ pc' = "main_return"
    /\ UNCHANGED <<aux, proc, state, cppState, file, startFile, handler, cmds, step, stepErr,
                   spinner, spinIdx, countdown, cdI, duration, envVote, vote, voteRet,
                   scBy, scPc, chainProcess, child, sigChan, hpc, sigs>>

\* A node child dies, by itself or of a signal sent to it.
ChildExit ==
    /\ proc = "running"
    /\ \E c \in Children :
          /\ child[c] = "running"
          /\ child' = [child EXCEPT ![c] = "dead"]
    /\ UNCHANGED <<aux, proc, pc, state, cppState, file, startFile, handler, cmds, step,
                   stepErr, spinner, spinIdx, countdown, cdI, duration, envVote, vote,
                   voteRet, scBy, scPc, chainProcess, sigChan, hpc, sigs>>

\* -------------------------------------------------- handleProposalSubmission
\* The guard on ProposalCreated, then the 10 s sleep and submitProposal.
HpsGuard ==
    /\ proc = "running" /\ pc = "hps_guard"
    /\ IF NoProposal(state)
       THEN pc' = "main_return" /\ step' = step
       ELSE pc' = "es_begin" /\ step' = "submit"
    /\ UNCHANGED <<aux, proc, state, cppState, file, startFile, handler, cmds, stepErr,
                   spinner, spinIdx, countdown, cdI, duration, envVote, vote, voteRet,
                   scBy, scPc, chainProcess, child, sigChan, hpc, sigs>>

\* submitProposal's "Do you want to vote on this proposal?".
SpPrompt ==
    /\ proc = "running" /\ pc = "sp_prompt"
    /\ \E yes \in BOOLEAN :
          IF yes THEN pc' = "vp_inputs" /\ voteRet' = "sp"
                 ELSE pc' = "hps_prompt" /\ voteRet' = voteRet
    /\ UNCHANGED <<aux, proc, state, cppState, file, startFile, handler, cmds, step, stepErr,
                   spinner, spinIdx, countdown, cdI, duration, envVote, vote, scBy, scPc,
                   chainProcess, child, sigChan, hpc, sigs>>

\* handleProposalSubmission's own "Do you want to vote on this proposal?".
HpsPrompt ==
    /\ proc = "running" /\ pc = "hps_prompt"
    /\ \E yes \in BOOLEAN :
          IF yes THEN pc' = "vp_inputs" /\ voteRet' = "hps"
                 ELSE pc' = "hps_clear" /\ voteRet' = voteRet
    /\ UNCHANGED <<aux, proc, state, cppState, file, startFile, handler, cmds, step, stepErr,
                   spinner, spinIdx, countdown, cdI, duration, envVote, vote, scBy, scPc,
                   chainProcess, child, sigChan, hpc, sigs>>

\* clearState() and "Testing completed!": handleProposalSubmission returns.
HpsClear ==
    /\ proc = "running" /\ pc = "hps_clear"
    /\ file' = clearState
    /\ pc' = "main_return"
    /\ UNCHANGED <<aux, proc, state, cppState, startFile, handler, cmds, step, stepErr,
                   spinner, spinIdx, countdown, cdI, duration, envVote, vote, voteRet,
                   scBy, scPc, chainProcess, child, sigChan, hpc, sigs>>

\* ----------------------------------------------------------- voteOnProposal
\* The vote the function settles on: VOTE_OPTION as it is when set, else the
\* option the menu choice stands for ("invalid": the switch's default).
ChosenVote(env, choice) == IF env # "" THEN env ELSE VoteOfChoice(choice)

\* voteOnProposal up to executeStep: it returns on an empty proposal id and on
\* a menu choice outside 1-4.
VpInputs ==
    /\ proc = "running" /\ pc = "vp_inputs"
    /\ \E id \in {"", "7"}, choice \in {"1", "2", "3", "4", "5"},
          env \in (IF envVote = "?" THEN EnvVotes ELSE {envVote}) :
          IF id = ""
          THEN pc' = VoteReturn(voteRet) /\ UNCHANGED <<vote, step, envVote>>
          ELSE /\ envVote' = env
               /\ IF ChosenVote(env, choice) = "invalid"
                  THEN pc' = VoteReturn(voteRet) /\ UNCHANGED <<vote, step>>
                  ELSE /\ vote' = ChosenVote(env, choice)
                       /\ step' = "vote"
                       /\ pc' = "es_begin"
    /\ UNCHANGED <<aux, proc, state, cppState, file, startFile, handler, cmds, stepErr,
                   spinner, spinIdx, countdown, cdI, duration, voteRet, scBy,
                   scPc, chainProcess, child, sigChan, hpc, sigs>>

\* "Do you want to wait for the voting period to complete?".
VpPromptWait ==
    /\ proc = "running" /\ pc = "vp_prompt_wait"
    /\ \E yes \in BOOLEAN :
          pc' = IF yes THEN "wv_start" ELSE VoteReturn(voteRet)
    /\ UNCHANGED <<aux, proc, state, cppState, file, startFile, handler, cmds, step, stepErr,
                   spinner, spinIdx, countdown, cdI, duration, envVote, vote, voteRet,
                   scBy, scPc, chainProcess, child, sigChan, hpc, sigs>>

\* ------------------------------------------------------ waitForVotingPeriod
\* The duration (VOTING_PERIOD, the prompt, or the default) and
\* go showCountdownAnimation(duration, done).
WvStart ==
    /\ proc = "running" /\ pc = "wv_start"
    /\ \E d \in Durations :
          /\ duration' = d
          /\ cdI' = d
    /\ countdown' = "running"
    /\ pc' = "wv_sleep"
    /\ UNCHANGED <<aux, proc, state, cppState, file, startFile, handler, cmds, step, stepErr,
                   spinner, spinIdx, envVote, vote, voteRet, scBy, scPc, chainProcess,
                   child, sigChan, hpc, sigs>>

\* time.Sleep(duration) is over; main blocks in `done <- true`.
WvSleep ==
    /\ proc = "running" /\ pc = "wv_sleep"
    /\ pc' = "wv_sending"
    /\ UNCHANGED <<aux, proc, state, cppState, file, startFile, handler, cmds, step, stepErr,
                   spinner, spinIdx, countdown, cdI, duration, envVote, vote, voteRet,
                   scBy, scPc, chainProcess, child, sigChan, hpc, sigs>>

\* The loop condition of showCountdownAnimation.
CountdownLoops(i) == i > 0

\* showCountdownAnimation, `case <-done`: the rendezvous completes main's send.
CountdownRecv ==
    /\ proc = "running" /\ countdown = "running"
    /\ CountdownLoops(cdI)
    /\ SendPending(pc, "wv_sending")
    /\ countdown' = "stopped"
    /\ pc' = "wv_done"
    /\ UNCHANGED <<aux, proc, state, cppState, file, startFile, handler, cmds, step, stepErr,
                   spinner, spinIdx, cdI, duration, envVote, vote, voteRet, scBy, scPc,
                   chainProcess, child, sigChan, hpc, sigs>>

\* showCountdownAnimation, `default`: MM:SS, a 1 s sleep, i--.
CountdownTick ==
    /\ proc = "running" /\ countdown = "running"
    /\ CountdownLoops(cdI)
    /\ ~SendPending(pc, "wv_sending")
    /\ cdI' = cdI - 1
    /\ UNCHANGED <<aux, proc, pc, state, cppState, file, startFile, handler, cmds, step,
                   stepErr, spinner, spinIdx, countdown, duration, envVote, vote,
                   voteRet, scBy, scPc, chainProcess, child, sigChan, hpc, sigs>>

\* showCountdownAnimation leaves its loop, prints 00:00 and returns.
CountdownEnd ==
    /\ proc = "running" /\ countdown = "running"
    /\ ~CountdownLoops(cdI)
    /\ countdown' = "finished"
    /\ UNCHANGED <<aux, proc, pc, state, cppState, file, startFile, handler, cmds, step,
                   stepErr, spinner, spinIdx, cdI, duration, envVote, vote, voteRet,
                   scBy, scPc, chainProcess, child, sigChan, hpc, sigs>>

\* "Voting period completed!", then the status query through executeStep.
WvDone ==
    /\ proc = "running" /\ pc = "wv_done"
    /\ step' = "query"
    /\ pc' = "es_begin"
    /\ UNCHANGED <<aux, proc, state, cppState, file, startFile, handler, cmds, stepErr,
                   spinner, spinIdx, countdown, cdI, duration, envVote, vote, voteRet,
                   scBy, scPc, chainProcess, child, sigChan, hpc, sigs>>

\* ----------------------------------------------------- setupSignalHandling
\* SIGINT or SIGTERM reaches the process once the handler is installed; the
\* channel buffers one signal, and the handler reads only one.
Interrupt ==
    /\ proc = "running" /\ pc # "start"
    /\ hpc = "recv" /\ sigChan = 0
    /\ sigChan' = 1
    /\ UNCHANGED <<aux, proc, pc, state, cppState, file, startFile, handler, cmds, step,
                   stepErr, spinner, spinIdx, countdown, cdI, duration, envVote, vote,
                   voteRet, scBy, scPc, chainProcess, child, hpc, sigs>>

\* sig := <-sigChan. sigs starts with "alive" for the children running now.
HRecv ==
    /\ proc = "running" /\ hpc = "recv" /\ sigChan > 0
    /\ sigChan' = sigChan - 1
    /\ sigs' = [c \in Children |-> IF child[c] = "running" THEN <<"alive">> ELSE <<>>]
    /\ hpc' = "check"
    /\ UNCHANGED <<aux, proc, pc, state, cppState, file, startFile, handler, cmds, step,
                   stepErr, spinner, spinIdx, countdown, cdI, duration, envVote, vote,
                   voteRet, scBy, scPc, chainProcess, child>>

\* chainProcess != nil && chainProcess.Process != nil
HasChainProcess(cp) == cp.set /\ cp.Process

\* The test on the global, and Process.Signal(SIGTERM) when it passes.
HTerm ==
    /\ proc = "running" /\ hpc = "check"
    /\ IF HasChainProcess(chainProcess)
       THEN /\ sigs' = [sigs EXCEPT !["chain"] = Append(@, "term")]
            /\ hpc' = "kill"
       ELSE /\ sigs' = sigs
            /\ hpc' = "pkill"
    /\ UNCHANGED <<aux, proc, pc, state, cppState, file, startFile, handler, cmds, step,
                   stepErr, spinner, spinIdx, countdown, cdI, duration, envVote, vote,
                   voteRet, scBy, scPc, chainProcess, child, sigChan>>

\* chainProcess.ProcessState == nil || !chainProcess.ProcessState.Exited()
StillRunning(cp) == cp.ProcessState = "nil" \/ cp.ProcessState # "exited"

\* time.Sleep(2 * time.Second) is over, then Process.Kill() when the test
\* passes: SIGKILL ends a child that still runs.
HKill ==
    /\ proc = "running" /\ hpc = "kill"
    /\ IF StillRunning(chainProcess)
       THEN /\ sigs' = [sigs EXCEPT !["chain"] = @ \o <<"grace", "kill">>]
            /\ child' = [child EXCEPT !["chain"] = IF @ = "running" THEN "dead" ELSE @]
       ELSE /\ sigs' = [sigs EXCEPT !["chain"] = Append(@, "grace")]
            /\ child' = child
    /\ hpc' = "pkill"
    /\ UNCHANGED <<aux, proc, pc, state, cppState, file, startFile, handler, cmds, step,
                   stepErr, spinner, spinIdx, countdown, cdI, duration, envVote, vote,
                   voteRet, scBy, scPc, chainProcess, sigChan>>

\* exec.Command("pkill", "junctiond").Run(): SIGTERM to every node by name.
HPkill ==
    /\ proc = "running" /\ hpc = "pkill"
    /\ sigs' = [c \in Children |->
                  IF child[c] = "running" THEN Append(sigs[c], "pkill") ELSE sigs[c]]
    /\ hpc' = "clear"
    /\ UNCHANGED <<aux, proc, pc, state, cppState, file, startFile, handler, cmds, step,
                   stepErr, spinner, spinIdx, countdown, cdI, duration, envVote, vote,
                   voteRet, scBy, scPc, chainProcess, child, sigChan>>

\* clearState()
HClear ==
    /\ proc = "running" /\ hpc = "clear"
    /\ file' = clearState
    /\ hpc' = "exit"
    /\ UNCHANGED <<aux, proc, pc, state, cppState, startFile, handler, cmds, step, stepErr,
                   spinner, spinIdx, countdown, cdI, duration, envVote, vote, voteRet,
                   scBy, scPc, chainProcess, child, sigChan, sigs>>

\* os.Exit(0)
HExit ==
    /\ proc = "running" /\ hpc = "exit"
    /\ proc' = "exit0"
    /\ hpc' = "exited"
    /\ UNCHANGED <<aux, pc, state, cppState, file, startFile, handler, cmds, step, stepErr,
                   spinner, spinIdx, countdown, cdI, duration, envVote, vote, voteRet,
                   scBy, scPc, chainProcess, child, sigChan, sigs>>

\* The steps of the main goroutine.
Main ==
    \/ Startup
    \/ MainReturn
    \/ EsBegin
    \/ EsAction
    \/ EsCheck
    \/ CppCollect
    \/ CppSave
    \/ CppPrompt
    \/ CppGo
    \/ openNewTerminal
    \/ Step10Start
    \/ Step10Wait
    \/ HpsGuard
    \/ SpPrompt
    \/ HpsPrompt
    \/ HpsClear
    \/ VpInputs
    \/ VpPromptWait
    \/ WvStart
    \/ WvSleep
    \/ WvDone

\* The steps of showLoadingAnimation.
Spinner == SpinnerRecv \/ SpinnerTick

\* The steps of showCountdownAnimation.
Countdown == CountdownRecv \/ CountdownTick \/ CountdownEnd

\* The steps of startChain, in main or in its own goroutine.
StartChain == ScCheck \/ ScStart \/ ScWait

\* The steps of the signal-handler goroutine.
Handler == HRecv \/ HTerm \/ HKill \/ HPkill \/ HClear \/ HExit

Next ==
    \/ Main
    \/ Spinner
    \/ Countdown
    \/ StartChain
    \/ Handler
    \/ Interrupt
    \/ ChildExit

Spec == Init /\ [][Next]_vars

\* The Go scheduler runs every goroutine that can run; signals and the death
\* of a node are up to the environment.
LiveSpec ==
    /\ Spec
    /\ WF_vars(Main)
    /\ WF_vars(Spinner)
    /\ WF_vars(Countdown)
    /\ WF_vars(StartChain)
    /\ WF_vars(Handler)

\* The program's other variables while one function is run on its own.
MainOff ==
    /\ proc = "off"
    /\ pc = "off"
    /\ state = ZeroState
    /\ cppState = ZeroState
    /\ file = NoFile
    /\ startFile = NoFile
    /\ handler = "none"
    /\ cmds = <<>>
    /\ step = "none"
    /\ stepErr = "nil"
    /\ spinner = "none"
    /\ spinIdx = 0
    /\ countdown = "none"
    /\ cdI = 0
    /\ duration = 0
    /\ envVote = "?"
    /\ vote = ""
    /\ voteRet = "none"
    /\ scBy = "none"
    /\ scPc = "idle"
    /\ chainProcess = NilCmd
    /\ child = [c \in Children |-> "none"]
    /\ sigChan = 0
    /\ hpc = "recv"
    /\ sigs = [c \in Children |-> <<>>]

\* ------------------------------------------------------------------ strings
\* A string is the sequence of its characters.
\* unicode.IsSpace, on the characters used here.
IsSpace(c) == c \in {" ", "\n"}

\* strings.TrimLeftFunc(s, unicode.IsSpace).
RECURSIVE TrimLeft(_)
TrimLeft(s) == IF s = <<>> \/ ~IsSpace(Head(s)) THEN s ELSE TrimLeft(Tail(s))

\* strings.TrimRightFunc(s, unicode.IsSpace).
RECURSIVE TrimRight(_)
TrimRight(s) ==
    IF s = <<>> \/ ~IsSpace(s[Len(s)]) THEN s ELSE TrimRight(SubSeq(s, 1, Len(s) - 1))

\* A TrimSpace that returns its argument.
TrimSpaceNone(s) == s

\* strings.TrimSpace.
TrimSpace(s) == TrimRight(TrimLeft(s))

\* strings.Split(s, ","): the pieces between the commas, empty pieces kept;
\* a string without a comma is its own single piece.
RECURSIVE Split(_)
Split(s) ==
    IF \A i \in DOMAIN s : s[i] # ","
    THEN <<s>>
    ELSE LET i == CHOOSE k \in DOMAIN s : s[k] = "," /\ \A j \in 1..(k - 1) : s[j] # ","
         IN  <<SubSeq(s, 1, i - 1)>> \o Split(SubSeq(s, i + 1, Len(s)))

\* workers := strings.Split(v, ","); append(bridgeWorkers, strings.TrimSpace(worker)).
WorkerList(v) == [k \in DOMAIN Split(v) |-> TrimSpace(Split(v)[k])]

\* strings.HasPrefix.
HasPrefix(s, p) == Len(s) >= Len(p) /\ SubSeq(s, 1, Len(p)) = p

\* ------------------------- createParameterChangeProposal, with its data
\* The function run on its own from its first line, with the environment and
\* the working directory it finds, the lines it reads and the files it writes.

\* The characters BRIDGE_WORKERS is enumerated over.
Chars == {"a", "b", " ", ","}

\* Every string over Chars of length at most n.
Strings(n) == UNION {[1..k -> Chars] : k \in 0..n}

\* The value of the README's and the spec's example, "a, b ,c".
ExampleWorkers == <<"a", ",", " ", "b", " ", ",", "c">>

\* BRIDGE_WORKERS, BRIDGE_CONTRACT_ADDRESS and IPFS_CID as getEnv returns them:
\* <<>> when unset or empty.
EnvWorkers == Strings(MaxLen) \cup {ExampleWorkers}
EnvContracts == {<<>>, <<"0", "x", "1">>}
EnvCIDs == {<<>>, <<"Q", "m", "1">>, <<"x", "y", "z">>}

\* The lines reader.ReadString('\n') returns at the three prompts.
WorkerLines == {<<"\n">>, <<" ", "b", ",", "a", " ", "\n">>}
ContractLines == {<<"\n">>, <<" ", "0", "x", "2", "\n">>}
CIDLines == {<<"\n">>, <<" ", "\n">>, <<"Q", "m", "2", "\n">>, <<" ", "z", "z", "\n">>}

\* The answers to "Do you want to submit this proposal?", trimmed and lowered.
SubmitInputs == {"y", "yes", "n", ""}

\* The placeholders used when the worker and contract prompts read nothing.
DefaultWorkers == << <<"air1abc...">>, <<"air1def...">>, <<"air1ghi...">> >>
DefaultContract == <<"0x1234567890123456789012345678901234567890">>

\* A CID check that turns away what does not look like an IPFS hash.
CidRequiredStrict(cid) ==
    ~(HasPrefix(cid, <<"Q", "m">>) \/ HasPrefix(cid, <<"b", "a", "f", "y">>))

\* if cidInput == "" { ...; return }: the only CID that ends the function.
CidRequired(cid) == cid = <<>>

\* A proposal whose metadata is the bare CID.
ProposalBareCid(workers, contract, cid) ==
    [metadata |-> cid, bridge_workers |-> workers, bridge_contract_address |-> contract]

\* The Proposal written to proposal.json: metadata and the params of its
\* single message.
Proposal(workers, contract, cid) ==
    [metadata |-> <<"ipfs://">> \o cid,
     bridge_workers |-> workers,
     bridge_contract_address |-> contract]

\* state.BridgeWorkers = ...; state.ContractAddress = ...; state.IPFSCID = ...
WithProposal(r, workers, contract, cid) ==
    [Phase |-> r.Phase, ProposalCreated |-> r.ProposalCreated,
     ChainRunning |-> r.ChainRunning, BridgeWorkers |-> workers,
     ContractAddress |-> contract, IPFSCID |-> cid]

\* The function is entered: nothing read, nothing written yet.
CppInit ==
    /\ MainOff
    /\ codec = CodecOff
    /\ boot = BootOff
    /\ genesis = GenesisOff
    /\ single = SingleOff
    /\ \E f \in {NoFile, OkFile(ZeroState)} :
          cpp \in [pc : {"workers"},
                   envWorkers : EnvWorkers, envContract : EnvContracts, envCID : EnvCIDs,
                   file0 : {f}, file : {f}, state : {ZeroState},
                   from : {"none"}, bridgeWorkers : {<<>>}, contractAddress : {<<>>},
                   cidFrom : {"none"}, cidInput : {<<>>},
                   metadataJson : {FALSE}, proposalJson : {<<>>},
                   failed : {{}}, submitInput : {"none"}, launched : {<<>>},
                   run : {1}, written : {FALSE}]

\* Lines 819-850: the worker list from BRIDGE_WORKERS, else from the prompt,
\* else the placeholders.
CppWorkers ==
    /\ cpp.pc = "workers"
    /\ IF cpp.envWorkers # <<>>
       THEN cpp' = [cpp EXCEPT !.pc = "contract", !.from = "env",
                               !.bridgeWorkers = WorkerList(cpp.envWorkers)]
       ELSE \E line \in WorkerLines :
               LET workersInput == TrimSpace(line)
               IN  cpp' = IF workersInput # <<>>
                          THEN [cpp EXCEPT !.pc = "contract", !.from = "prompt",
                                           !.bridgeWorkers = WorkerList(workersInput)]
                          ELSE [cpp EXCEPT !.pc = "contract", !.from = "default",
                                           !.bridgeWorkers = DefaultWorkers]
    /\ UNCHANGED <<mainVars, codec, boot, genesis, single>>

\* Lines 852-867: the contract address, the same way.
CppContract ==
    /\ cpp.pc = "contract"
    /\ IF cpp.envContract # <<>>
       THEN cpp' = [cpp EXCEPT !.pc = "metadata", !.contractAddress = cpp.envContract]
       ELSE \E line \in ContractLines :
               cpp' = [cpp EXCEPT !.pc = "metadata",
                                  !.contractAddress =
                                      IF TrimSpace(line) = <<>> THEN DefaultContract
                                      ELSE TrimSpace(line)]
    /\ UNCHANGED <<mainVars, codec, boot, genesis, single>>

\* Lines 869-933: title, summary, details and forum URL, then metadata.json;
\* the function returns when the file cannot be written.
CppMetadata ==
    /\ cpp.pc = "metadata"
    /\ \E ok \in BOOLEAN :
          cpp' = IF ok
                 THEN [cpp EXCEPT !.pc = "cid", !.metadataJson = TRUE]
                 ELSE [cpp EXCEPT !.pc = "returned",
                                  !.failed = cpp.failed \cup {"metadata.json"}]
    /\ UNCHANGED <<mainVars, codec, boot, genesis, single>>

\* Lines 935-969: IPFS_CID as it is, else the trimmed line of the prompt; the
\* prefix check prints a warning and nothing else.
CppCid ==
    /\ cpp.pc = "cid"
    /\ IF cpp.envCID # <<>>
       THEN cpp' = [cpp EXCEPT !.pc = "save", !.cidFrom = "env", !.cidInput = cpp.envCID]
       ELSE \E line \in CIDLines :
               cpp' = IF CidRequired(TrimSpace(line))
                      THEN [cpp EXCEPT !.pc = "returned", !.cidFrom = "prompt",
                                       !.cidInput = TrimSpace(line)]
                      ELSE [cpp EXCEPT !.pc = "save", !.cidFrom = "prompt",
                                       !.cidInput = TrimSpace(line)]
    /\ UNCHANGED <<mainVars, codec, boot, genesis, single>>

\* Lines 993-1002: state := loadState(), the proposal data, saveState(state)
\* with its error discarded.
CppSaveState ==
    /\ cpp.pc = "save"
    /\ LET st == WithProposal(loadState(cpp.file), cpp.bridgeWorkers,
                              cpp.contractAddress, cpp.cidInput)
       IN  \E ok \in BOOLEAN :
              cpp' = IF ok
                     THEN [cpp EXCEPT !.pc = "write", !.state = st, !.file = saveState(st)]
                     ELSE [cpp EXCEPT !.pc = "write", !.state = st,
                                      !.failed = cpp.failed \cup {"saveState 1"}]
    /\ UNCHANGED <<mainVars, codec, boot, genesis, single>>

\* Lines 1004-1015: proposal.json (<<>> while there is no such file, else the
\* one document it holds); the function returns when it cannot be written.
CppWrite ==
    /\ cpp.pc = "write"
    /\ \E ok \in BOOLEAN :
          cpp' = IF ok
                 THEN [cpp EXCEPT !.pc = "prompt", !.written = TRUE,
                                  !.proposalJson = <<Proposal(cpp.bridgeWorkers,
                                                              cpp.contractAddress,
                                                              cpp.cidInput)>>]
                 ELSE [cpp EXCEPT !.pc = "returned",
                                  !.failed = cpp.failed \cup {"proposal.json"}]
    /\ UNCHANGED <<mainVars, codec, boot, genesis, single>>

\* Lines 1017-1052, the prompt: y or yes saves the submission phase (error
\* discarded) and goes on to the chain and the terminal; anything else calls
\* startChain.
CppSubmit ==
    /\ cpp.pc = "prompt"
    /\ \E submitInput \in SubmitInputs :
          IF submitInput = "y" \/ submitInput = "yes"
          THEN \E ok \in BOOLEAN :
                  cpp' = IF ok
                         THEN [cpp EXCEPT !.pc = "go", !.submitInput = submitInput,
                                          !.state = SubmitState(cpp.state),
                                          !.file = saveState(SubmitState(cpp.state))]
                         ELSE [cpp EXCEPT !.pc = "go", !.submitInput = submitInput,
                                          !.state = SubmitState(cpp.state),
                                          !.failed = cpp.failed \cup {"saveState 2"}]
          ELSE cpp' = [cpp EXCEPT !.pc = "returned", !.submitInput = submitInput,
                                  !.launched = Append(cpp.launched, "startChain")]
    /\ UNCHANGED <<mainVars, codec, boot, genesis, single>>

\* Lines 1041-1048: go startChain(config), the sleep, openNewTerminal().
CppLaunch ==
    /\ cpp.pc = "go"
    /\ cpp' = [cpp EXCEPT !.pc = "returned",
                          !.launched = cpp.launched \o <<"go startChain", "openNewTerminal">>]
    /\ UNCHANGED <<mainVars, codec, boot, genesis, single>>

CppNext ==
    \/ CppWorkers
    \/ CppContract
    \/ CppMetadata
    \/ CppCid
    \/ CppSaveState
    \/ CppWrite
    \/ CppSubmit
    \/ CppLaunch

CppSpec == CppInit /\ [][CppNext]_vars

\* ------------------------------------------ setup runs, one after another
\* The program is started again and again in the same working directory,
\* from no state file; each run of the setup phase comes to
\* createParameterChangeProposal.  run counts the runs, written says that
\* this run has written proposal.json.

\* The number of runs followed.
MaxRuns == 3

\* The first run: no testing_state.json, no proposal.json.
RunsInit ==
    /\ MainOff
    /\ codec = CodecOff
    /\ boot = BootOff
    /\ genesis = GenesisOff
    /\ single = SingleOff
    /\ cpp \in [pc : {"workers"},
                envWorkers : {<<>>, ExampleWorkers}, envContract : EnvContracts,
                envCID : EnvCIDs,
                file0 : {NoFile}, file : {NoFile}, state : {ZeroState},
                from : {"none"}, bridgeWorkers : {<<>>}, contractAddress : {<<>>},
                cidFrom : {"none"}, cidInput : {<<>>},
                metadataJson : {FALSE}, proposalJson : {<<>>},
                failed : {{}}, submitInput : {"none"}, launched : {<<>>},
                run : {1}, written : {FALSE}]

\* The run is over and the program is started again.  The run ended after
\* createParameterChangeProposal returned (step 10, then main returns: the
\* state file stays as it is), or an interrupt ended it anywhere (the handler
\* calls clearState, unless the process is gone before it gets there).  The
\* new main loads the state file and enters the setup phase when the phase
\* is not "proposal_submission"; metadata.json and proposal.json stay on disk.
CppRerun ==
    /\ cpp.pc # "off"
    /\ cpp.run < MaxRuns
    /\ Dispatch(loadState(cpp.file)) = "setup"
    /\ \E f \in {cpp.file, clearState} :
          /\ f = cpp.file \/ cpp.pc # "returned"
          /\ cpp' = [cpp EXCEPT !.pc = "workers", !.run = cpp.run + 1, !.written = FALSE,
                                !.file0 = f, !.file = f, !.state = ZeroState,
                                !.from = "none", !.bridgeWorkers = <<>>,
                                !.contractAddress = <<>>, !.cidFrom = "none",
                                !.cidInput = <<>>, !.failed = {},
                                !.submitInput = "none", !.launched = <<>>]
    /\ UNCHANGED <<mainVars, codec, boot, genesis, single>>

RunsNext == CppNext \/ CppRerun

RunsSpec == RunsInit /\ [][RunsNext]_vars

\* ------------------------------- saveState and loadState, with their data
\* A record is saved by one process and loaded by the next one.  Strings are
\* sequences of characters; "0xFF" is a byte that is not valid UTF-8, "U+FFFD"
\* the replacement character, "<" a character encoding/json escapes.

\* A []string: nil, or a list.
NilSlice == [isNil |-> TRUE, elems |-> <<>>]
Slice(l) == [isNil |-> FALSE, elems |-> l]

\* The strings and lists the fields of the saved records range over.
WorkerStrings == {<<"a">>, <<"b">>, <<"<", "a">>, <<"0xFF">>}
WorkerSlices ==
    {NilSlice} \cup {Slice(l) : l \in UNION {[1..k -> WorkerStrings] : k \in 0..MaxWorkers}}
PhaseStrings == {<<>>, <<"setup">>, <<"proposal_submission">>}
CIDStrings == {<<>>, <<"Q", "m", "1">>, <<"U+FFFD">>, <<"b", "0xFF">>}

\* The TestingState records saved: the seven string fields are encoded the
\* same way, so the four text fields of the proposal stand as one.
TestingStates ==
    [Phase : PhaseStrings, BridgeWorkers : WorkerSlices,
     ContractAddress : {<<>>, <<"0", "x", "1">>}, ProposalTitle : {<<>>, <<"<", "b">>},
     IPFSCID : CIDStrings, ProposalCreated : BOOLEAN, ChainRunning : BOOLEAN,
     ProposalSubmitted : BOOLEAN]

\* var state TestingState.
ZeroTestingState ==
    [Phase |-> <<>>, BridgeWorkers |-> NilSlice, ContractAddress |-> <<>>,
     ProposalTitle |-> <<>>, IPFSCID |-> <<>>, ProposalCreated |-> FALSE,
     ChainRunning |-> FALSE, ProposalSubmitted |-> FALSE]

\* &TestingState{Phase: "setup"}.
SetupTestingState == [ZeroTestingState EXCEPT !.Phase = <<"setup">>]

\* encoding/json writing one character of a string: invalid UTF-8 becomes
\* U+FFFD, "<" is written as its \u escape.
EncodeChar(c) ==
    CASE c = "0xFF" -> "U+FFFD"
      [] c = "<" -> "\\u003c"
      [] OTHER -> c

\* A decoder that leaves escapes as they are written.
DecodeCharRaw(j) == j

\* encoding/json reading one character of a string.
DecodeChar(j) == IF j = "\\u003c" THEN "<" ELSE j

\* JSON values: a string, null, an array of strings, a boolean.
JString(s) == [t |-> "string", v |-> [i \in DOMAIN s |-> EncodeChar(s[i])]]
JNull == [t |-> "null", v |-> <<>>]
JArray(l) == [t |-> "array", v |-> [i \in DOMAIN l |-> JString(l[i]).v]]
JBool(b) == [t |-> "bool", v |-> <<b>>]

\* json.MarshalIndent(state, "", "  "): the document, key by key.
MarshalIndent(r) ==
    [phase |-> JString(r.Phase),
     bridge_workers |-> IF r.BridgeWorkers.isNil THEN JNull
                        ELSE JArray(r.BridgeWorkers.elems),
     contract_address |-> JString(r.ContractAddress),
     proposal_title |-> JString(r.ProposalTitle),
     ipfs_cid |-> JString(r.IPFSCID),
     proposal_created |-> JBool(r.ProposalCreated),
     chain_running |-> JBool(r.ChainRunning),
     proposal_submitted |-> JBool(r.ProposalSubmitted)]

\* The Go string a JSON string decodes to.
GoString(v) == [i \in DOMAIN v |-> DecodeChar(v[i])]

\* json.Unmarshal(content, &state) on a document saveState wrote: null leaves
\* the field as it is, an array makes a non-nil slice.
UnmarshalState(d, z) ==
    [Phase |-> IF d.phase.t = "null" THEN z.Phase ELSE GoString(d.phase.v),
     BridgeWorkers |-> IF d.bridge_workers.t = "null" THEN z.BridgeWorkers
                       ELSE Slice([i \in DOMAIN d.bridge_workers.v |->
                                      GoString(d.bridge_workers.v[i])]),
     ContractAddress |-> GoString(d.contract_address.v),
     ProposalTitle |-> GoString(d.proposal_title.v),
     IPFSCID |-> GoString(d.ipfs_cid.v),
     ProposalCreated |-> d.proposal_created.v[1],
     ChainRunning |-> d.chain_running.v[1],
     ProposalSubmitted |-> d.proposal_submitted.v[1]]

\* A process holds a record and there is no testing_state.json (<<>>).
CodecInit ==
    /\ MainOff
    /\ cpp = CppOff
    /\ boot = BootOff
    /\ genesis = GenesisOff
    /\ single = SingleOff
    /\ codec \in [pc : {"save"}, rec : TestingStates, saveErr : {FALSE},
                  file : {<<>>}, out : {ZeroTestingState}]

\* saveState(state): the file holds the document unless os.WriteFile fails.
CodecSave ==
    /\ codec.pc = "save"
    /\ \E ok \in BOOLEAN :
          codec' = IF ok
                   THEN [codec EXCEPT !.pc = "load", !.file = <<MarshalIndent(codec.rec)>>]
                   ELSE [codec EXCEPT !.pc = "load", !.saveErr = TRUE]
    /\ UNCHANGED <<mainVars, cpp, boot, genesis, single>>

\* loadState() in a fresh process.
CodecLoad ==
    /\ codec.pc = "load"
    /\ codec' = [codec EXCEPT !.pc = "loaded",
                              !.out = IF codec.file = <<>> THEN SetupTestingState
                                      ELSE UnmarshalState(codec.file[1], ZeroTestingState)]
    /\ UNCHANGED <<mainVars, cpp, boot, genesis, single>>

CodecNext == CodecSave \/ CodecLoad

CodecSpec == CodecInit /\ [][CodecNext]_vars

\* ------------------------------------ loadConfig, loadEnvFile and the setup
\* main's first lines and the arguments handleChainSetup gives its commands.

\* The keys of ChainConfig.
ConfigKeys == {"MONIKER", "CHAIN_ID", "DENOM", "KEY_NAME", "AMOUNT", "VALIDATOR_STAKE",
               "GAS_PRICES", "MINIMUM_GAS_PRICES"}

\* The defaults of loadConfig.
ConfigDefault(k) ==
    CASE k = "MONIKER" -> "junction-testing"
      [] k = "CHAIN_ID" -> "junction"
      [] k = "DENOM" -> "uamf"
      [] k = "KEY_NAME" -> "test1"
      [] k = "AMOUNT" -> "100000000000uamf"
      [] k = "VALIDATOR_STAKE" -> "10000000000uamf"
      [] k = "GAS_PRICES" -> "0.0025uamf"
      [] k = "MINIMUM_GAS_PRICES" -> "0.00025uamf"

\* getEnv(key, defaultValue) in environment e: "" is unset or empty.
getEnv(e, k, d) == IF e[k] # "" THEN e[k] ELSE d

\* loadConfig() in environment e.
loadConfig(e) == [k \in ConfigKeys |-> getEnv(e, k, ConfigDefault(k))]

\* main: loadConfig(), then the .env file, then the handler.
BootOrder(p) == IF p = "config" THEN "envfile" ELSE "setup"

\* loadEnvFile: os.Setenv(key, value) for every KEY=value line of the file f
\* ("" where the file has no line for the key).
loadEnvFile(e, f) == [k \in ConfigKeys |-> IF f[k] # "" THEN f[k] ELSE e[k]]

\* The arguments handleChainSetup takes from config, command by command.
SetupArgs(c) ==
    << [cmd |-> "init", args |-> [k \in {"MONIKER", "DENOM", "CHAIN_ID"} |-> c[k]]],
       [cmd |-> "keys", args |-> [k \in {"KEY_NAME"} |-> c[k]]],
       [cmd |-> "add-genesis-account", args |-> [k \in {"KEY_NAME", "AMOUNT"} |-> c[k]]],
       [cmd |-> "gentx",
        args |-> [k \in {"KEY_NAME", "VALIDATOR_STAKE", "GAS_PRICES", "CHAIN_ID"} |-> c[k]]],
       [cmd |-> "start", args |-> [k \in {"MINIMUM_GAS_PRICES"} |-> c[k]]] >>

\* The process environment and the .env file of the working directory.
BootInit ==
    /\ MainOff
    /\ cpp = CppOff
    /\ codec = CodecOff
    /\ genesis = GenesisOff
    /\ single = SingleOff
    /\ \E e \in [ConfigKeys -> {"", "from env"}], f \in [ConfigKeys -> {"", "from .env"}],
          x \in BOOLEAN :
          boot = [pc |-> "config", environ0 |-> e, environ |-> e, exists |-> x,
                  dotenv |-> IF x THEN f ELSE [k \in ConfigKeys |-> ""],
                  config |-> [k \in ConfigKeys |-> ""], cmdline |-> <<>>,
                  preview |-> <<>>, gov |-> <<>>, govPreview |-> <<>>]

\* config := loadConfig().
BootConfig ==
    /\ boot.pc = "config"
    /\ boot' = [boot EXCEPT !.pc = BootOrder("config"),
                            !.config = loadConfig(boot.environ)]
    /\ UNCHANGED <<mainVars, cpp, codec, genesis, single>>

\* if _, err := os.Stat(".env"); err == nil { loadEnvFile(".env") }.
BootEnvFile ==
    /\ boot.pc = "envfile"
    /\ boot' = [boot EXCEPT !.pc = BootOrder("envfile"),
                            !.environ = IF boot.exists
                                        THEN loadEnvFile(boot.environ, boot.dotenv)
                                        ELSE boot.environ]
    /\ UNCHANGED <<mainVars, cpp, codec, genesis, single>>

\* getCommandDescription(description), for the step that runs command c: the
\* text of the map, which spells the defaults out; "" (no arguments) for a
\* description the map does not have.
getCommandDescription(c) ==
    IF c \in {"init", "keys", "add-genesis-account", "gentx"}
    THEN [cmd |-> c,
          args |-> [k \in DOMAIN (CHOOSE a \in {SetupArgs(loadConfig([x \in ConfigKeys |-> ""]))[i] :
                                                i \in 1..4} : a.cmd = c).args |->
                       ConfigDefault(k)]]
    ELSE [cmd |-> "", args |-> [k \in {} |-> ""]]

\* The steps of a command line that go through executeStep (the node start
\* of step 10 does not), and what executeStep prints as "Command:" for each.
Previews(line) ==
    [i \in {j \in DOMAIN line : line[j].cmd # "start"} |-> getCommandDescription(line[i].cmd)]

\* submitProposal and voteOnProposal: chainID := getEnv("CHAIN_ID", "junction").
GovArgs(e) ==
    << [cmd |-> "submit", args |-> [k \in {"CHAIN_ID"} |-> getEnv(e, k, ConfigDefault(k))]],
       [cmd |-> "vote", args |-> [k \in {"CHAIN_ID"} |-> getEnv(e, k, ConfigDefault(k))]] >>

\* The setup steps (handleChainSetup; main in the single-run script), every
\* command succeeding.
BootSetup ==
    /\ boot.pc = "setup"
    /\ boot' = [boot EXCEPT !.pc = "gov", !.cmdline = SetupArgs(boot.config),
                            !.preview = Previews(SetupArgs(boot.config))]
    /\ UNCHANGED <<mainVars, cpp, codec, genesis, single>>

\* The governance transactions of the run: in the single-run script they
\* follow the setup steps in the same process.
BootGov ==
    /\ boot.pc = "gov"
    /\ boot' = [boot EXCEPT !.pc = "done", !.gov = GovArgs(boot.environ),
                            !.govPreview = Previews(GovArgs(boot.environ))]
    /\ UNCHANGED <<mainVars, cpp, codec, genesis, single>>

BootNext == BootConfig \/ BootEnvFile \/ BootSetup \/ BootGov

BootSpec == BootInit /\ [][BootNext]_vars

\* --------------------------------------- steps 7 and 8: the genesis file
\* A JSON document is the set of its leaves, each <<path, value>>: the path
\* is the sequence of keys from the root, the value a scalar, "null" or "{}"
\* (an object without keys).  An object with keys is there through its leaves.

\* p is a prefix of q.
IsPrefix(p, q) == Len(p) <= Len(q) /\ SubSeq(q, 1, Len(p)) = p

\* The three paths of the jq filter and the values it assigns.
Params == <<"app_state", "gov", "params">>
Targets == {"max_deposit_period", "voting_period", "expedited_voting_period"}
TargetValue(k) == IF k = "expedited_voting_period" THEN "300s" ELSE "600s"

\* jq's `path = value` that puts a fresh object with the one key in the place
\* of the object that holds the key.
SetPathAlone(doc, p, v) ==
    {l \in doc : ~IsPrefix(SubSeq(p, 1, Len(p) - 1), l[1])} \cup {<<p, v>>}

\* jq's `path = value` on a document it can index: the leaf is set, whatever
\* was at or below the path goes, a null or {} on the way becomes an object.
SetPath(doc, p, v) ==
    {l \in doc : ~IsPrefix(l[1], p) /\ ~IsPrefix(p, l[1])} \cup {<<p, v>>}

\* jq cannot index a scalar on the way to the path ("Cannot index string").
CannotIndex(doc, p) ==
    \E l \in doc : IsPrefix(l[1], p) /\ l[1] # p /\ l[2] \notin {"null", "{}"}

\* The filter: the three assignments, piped.
JqFilter(doc) ==
    LET d1 == SetPath(doc, Append(Params, "max_deposit_period"), "600s")
        d2 == SetPath(d1, Append(Params, "voting_period"), "600s")
    IN  SetPath(d2, Append(Params, "expedited_voting_period"), "300s")

\* The leaves genesis documents are made of: the params object with any of
\* the three keys (as a string or as an object) and another key, or something
\* else where the gov parameters should be.
ParamLeaves ==
    {<<Append(Params, k), "172800s">> : k \in Targets}
    \cup {<<Params \o <<k, "seconds">>, "172800">> : k \in Targets}
    \cup {<<Append(Params, "min_deposit"), "10uamf">>}
ParamObjects ==
    {ls \in SUBSET ParamLeaves :
        \A k \in Targets : ~({<<Append(Params, k), "172800s">>,
                              <<Params \o <<k, "seconds">>, "172800">>} \subseteq ls)}
GovShapes ==
    {IF ls = {} THEN {<<Params, "{}">>} ELSE ls : ls \in ParamObjects}
    \cup {{<<Params, "null">>}, {<<Params, "172800s">>},
          {<<<<"app_state", "gov">>, "{}">>}, {<<<<"app_state", "gov">>, "on">>},
          {<<<<"app_state">>, "null">>}, {}}
GenesisDocs ==
    {g \cup b \cup {<<<<"chain_id">>, "junction">>} :
        g \in GovShapes, b \in {{}, {<<<<"app_state", "bank", "supply">>, "1uamf">>}}}

\* genesis.json after steps 1 to 6, and no genesis.json.tmp (<<>>).
GenesisInit ==
    /\ MainOff
    /\ cpp = CppOff
    /\ codec = CodecOff
    /\ boot = BootOff
    /\ single = SingleOff
    /\ \E d \in GenesisDocs :
          genesis = [pc |-> "jq", doc0 |-> d, doc |-> d, tmp |-> <<>>, err |-> "nil"]

\* Step 7: jq prints the filtered document, or fails (it cannot index the
\* document, or cannot run or read the file); the output goes to
\* genesis.json.tmp; executeStep exits on an error.
GenesisJq ==
    /\ genesis.pc = "jq"
    /\ \E runs \in BOOLEAN, wrOk \in BOOLEAN :
          genesis' =
             IF ~runs \/ \E k \in Targets : CannotIndex(genesis.doc, Append(Params, k))
             THEN [genesis EXCEPT !.pc = "exit1", !.err = "jq"]
             ELSE IF ~wrOk
             THEN [genesis EXCEPT !.pc = "exit1", !.err = "write"]
             ELSE [genesis EXCEPT !.pc = "mv", !.tmp = <<JqFilter(genesis.doc)>>]
    /\ UNCHANGED <<mainVars, cpp, codec, boot, single>>

\* Step 8: mv genesis.json.tmp genesis.json.
GenesisMv ==
    /\ genesis.pc = "mv"
    /\ \E ok \in BOOLEAN :
          genesis' = IF ok
                     THEN [genesis EXCEPT !.pc = "done", !.doc = genesis.tmp[1],
                                          !.tmp = <<>>]
                     ELSE [genesis EXCEPT !.pc = "exit1", !.err = "mv"]
    /\ UNCHANGED <<mainVars, cpp, codec, boot, single>>

GenesisNext == GenesisJq \/ GenesisMv

GenesisSpec == GenesisInit /\ [][GenesisNext]_vars

\* ------------------------------------------ the single-run script (1-477)
\* The first program of main.go does everything in one process: eight setup
\* steps, the proposal with its submit, vote and wait, then the node.  It has
\* no state file, no startChain and no signal handler.  cmds is the log of
\* the external commands it invokes, in order.

\* The eight steps main runs through executeStep; step 3 is `keys add` alone.
SingleSteps == <<"rm", "init", "keys add", "add-genesis-account", "gentx",
                 "collect-gentxs", "jq", "mv">>

\* Where the script goes on after a step that succeeded.
SingleAfter(s) ==
    CASE s = "submit" -> "sp_prompt"
      [] s = "vote" -> "vp_prompt"
      [] s = "query" -> "step10"
      [] s = SingleSteps[Len(SingleSteps)] -> "proposal"
      [] OTHER -> "exec"

\* The step executeStep runs next after a setup step.
SingleNextStep(s) ==
    IF \E i \in 1..(Len(SingleSteps) - 1) : SingleSteps[i] = s
    THEN SingleSteps[(CHOOSE i \in 1..(Len(SingleSteps) - 1) : SingleSteps[i] = s) + 1]
    ELSE s

\* main is entered with VOTE_OPTION as the environment has it.
SingleInit ==
    /\ MainOff
    /\ cpp = CppOff
    /\ codec = CodecOff
    /\ boot = BootOff
    /\ genesis = GenesisOff
    /\ \E e \in EnvVotes :
          single = [pc |-> "exec", step |-> SingleSteps[1], vote |-> "", envVote |-> e,
                    countdown |-> "none", cmds |-> <<>>]

\* executeStep: the action runs its command; an error exits with status 1.
SingleExec ==
    /\ single.pc = "exec"
    /\ \E ok \in BOOLEAN :
          LET err == IF ok THEN "nil" ELSE "err"
              arg == IF single.step = "vote" THEN single.vote ELSE ""
          IN  single' = [single EXCEPT
                            !.cmds = Append(single.cmds, Cmd(single.step, arg, ok)),
                            !.pc = IF StepFatal(err) THEN "exit1"
                                   ELSE SingleAfter(single.step),
                            !.step = IF StepFatal(err) THEN single.step
                                     ELSE SingleNextStep(single.step)]
    /\ UNCHANGED <<mainVars, cpp, codec, boot, genesis>>

\* createParameterChangeProposal(): it returns early (metadata.json or
\* proposal.json not written, no CID), or writes proposal.json and asks; y or
\* yes calls submitProposal() there and then, anything else returns.
SingleProposal ==
    /\ single.pc = "proposal"
    /\ \E written \in BOOLEAN, submitInput \in SubmitInputs :
          single' = IF written /\ (submitInput = "y" \/ submitInput = "yes")
                    THEN [single EXCEPT !.pc = "exec", !.step = "submit"]
                    ELSE [single EXCEPT !.pc = "step10"]
    /\ UNCHANGED <<mainVars, cpp, codec, boot, genesis>>

\* submitProposal's "Do you want to vote on this proposal?".
SinglePromptVote ==
    /\ single.pc = "sp_prompt"
    /\ \E yes \in BOOLEAN :
          single' = [single EXCEPT !.pc = IF yes THEN "vp_inputs" ELSE "step10"]
    /\ UNCHANGED <<mainVars, cpp, codec, boot, genesis>>

\* voteOnProposal up to executeStep: it returns on an empty proposal id and on
\* a menu choice outside 1-4.
SingleVoteInputs ==
    /\ single.pc = "vp_inputs"
    /\ \E id \in {"", "1"}, choice \in {"1", "5"} :
          LET v == ChosenVote(single.envVote, choice)
          IN  single' = IF id = "" \/ v = "invalid"
                        THEN [single EXCEPT !.pc = "step10"]
                        ELSE [single EXCEPT !.pc = "exec", !.step = "vote", !.vote = v]
    /\ UNCHANGED <<mainVars, cpp, codec, boot, genesis>>

\* "Do you want to wait for the voting period to complete?": yes enters
\* waitForVotingPeriod, which starts the countdown goroutine and sleeps.
SinglePromptWait ==
    /\ single.pc = "vp_prompt"
    /\ \E yes \in BOOLEAN :
          single' = IF yes THEN [single EXCEPT !.pc = "wv_sleep", !.countdown = "running"]
                    ELSE [single EXCEPT !.pc = "step10"]
    /\ UNCHANGED <<mainVars, cpp, codec, boot, genesis>>

\* showCountdownAnimation's loop runs out and the goroutine returns.
SingleCountdownEnd ==
    /\ single.pc = "wv_sleep" /\ single.countdown = "running"
    /\ single' = [single EXCEPT !.countdown = "finished"]
    /\ UNCHANGED <<mainVars, cpp, codec, boot, genesis>>

\* `done <- true` meets the countdown's receive; then the status query.  With
\* the goroutine gone the send blocks for good.
SingleWaitDone ==
    /\ single.pc = "wv_sleep" /\ single.countdown = "running"
    /\ single' = [single EXCEPT !.countdown = "stopped", !.pc = "exec", !.step = "query"]
    /\ UNCHANGED <<mainVars, cpp, codec, boot, genesis>>

\* Step 10: cmd.Run() of the node, its error discarded; main returns when the
\* node has ended.
SingleStep10 ==
    /\ single.pc = "step10"
    /\ \E ok \in BOOLEAN :
          single' = [single EXCEPT !.cmds = Append(single.cmds, Cmd("start", "step10", ok)),
                                   !.pc = IF ok THEN "node" ELSE "exit0"]
    /\ UNCHANGED <<mainVars, cpp, codec, boot, genesis>>

\* The node ends and main returns.
SingleNodeExit ==
    /\ single.pc = "node"
    /\ single' = [single EXCEPT !.pc = "exit0"]
    /\ UNCHANGED <<mainVars, cpp, codec, boot, genesis>>

SingleNext ==
    \/ SingleExec
    \/ SingleProposal
    \/ SinglePromptVote
    \/ SingleVoteInputs
    \/ SinglePromptWait
    \/ SingleCountdownEnd
    \/ SingleWaitDone
    \/ SingleStep10
    \/ SingleNodeExit

SingleSpec == SingleInit /\ [][SingleNext]_vars

\* ------------------------------------------------------------ both scripts
\* One run of either program.
BothInit == Init \/ SingleInit

BothNext == Next \/ SingleNext

BothSpec == BothInit /\ [][BothNext]_vars

\* ------------------------------------------------------------------ claims
\* An interrupt has reached the process.
Interrupted == sigChan > 0 \/ hpc # "recv"

\* The state file is JSON whose phase field is the string "proposal_submission".
SaysSubmission(f) ==
    f.kind \in {"ok", "type"} /\ f.bad # "phase" /\ f.rec.Phase = "proposal_submission"

\* The state file is JSON whose proposal_created field is true.
SaysCreated(f) ==
    f.kind \in {"ok", "type"} /\ f.bad # "proposal_created" /\ f.rec.ProposalCreated

\* The commands of the setup sequence and those of the submission sequence.
SetupCmds == {"rm", "init", "keys show", "keys add", "add-genesis-account", "gentx",
              "collect-gentxs", "jq", "mv", "pgrep", "start", "gnome-terminal", "xterm"}
SubmissionCmds == {"submit", "vote", "query"}

\* The names of the commands invoked so far.
Invoked == {cmds[i].cmd : i \in DOMAIN cmds}

\* C1: every startup enters exactly one of the two sequences: the submission
\* sequence when testing_state.json exists with phase "proposal_submission",
\* otherwise the setup sequence; a run of one sequence never invokes a command
\* of the other.
C1_Dispatch ==
    /\ pc # "start" =>
          handler = (IF SaysSubmission(startFile) THEN "submission" ELSE "setup")
    /\ SaysSubmission(startFile) => Invoked \cap SetupCmds = {}
    /\ ~SaysSubmission(startFile) => Invoked \cap SubmissionCmds = {}

\* A run that found phase "proposal_submission" has invoked submit-proposal.
C1_Witness ==
    /\ SaysSubmission(startFile) /\ handler = "submission"
    /\ "submit" \in Invoked

\* C2 (as claimed): a run that starts in the submission phase with a proposal,
\* in which no command fails and no interrupt arrives, eventually finishes
\* with testing_state.json deleted, whatever the user answers.
C2_Original ==
    (handler = "submission" /\ state.ProposalCreated)
        ~> \/ proc # "running" /\ file = NoFile
           \/ \E i \in DOMAIN cmds : ~cmds[i].ok
           \/ Interrupted

\* C3 (as claimed): a state file that does not parse into the record (a
\* syntax error, or a field of the wrong type) is treated as absent: the
\* setup sequence runs.
C3_Original ==
    (startFile.kind \in {"syntax", "type"} /\ pc # "start") => handler = "setup"

C5_Original ==
    \A i \in DOMAIN cmds : cmds[i].cmd = "vote" => cmds[i].arg \in ValidVotes

\* C6 (as claimed): once an interrupt has been delivered, the process never
\* exits with testing_state.json still on disk.
C6_Original ==
    (Interrupted /\ proc # "running") => file = NoFile

\* What the handler owes a child that was alive at the interrupt: SIGTERM,
\* then the grace period, before anything else.
Graceful(s) == Len(s) >= 3 /\ s[2] = "term" /\ s[3] = "grace"

\* C7 (as claimed): when the handler is through with the node processes, each
\* child that was alive at the interrupt has been sent SIGTERM and then given
\* the grace period.
C7_Original ==
    hpc \in {"clear", "exit", "exited"} =>
        \A c \in Children :
            (sigs[c] # <<>> /\ Head(sigs[c]) = "alive") => Graceful(sigs[c])

\* C8 (as claimed): for every duration, waitForVotingPeriod gets past its send
\* on the done channel and goes on to the status query.
C8_Original ==
    (pc = "wv_sleep") ~> (pc = "wv_done" \/ proc # "running")

\* C9: once a step's action has returned, the spinner goroutine receives the
\* stop signal and ends, executeStep goes on (unless the process has exited
\* meanwhile), and no step of the spinner changes the action's error.
C9_SpinnerStops ==
    /\ (pc = "es_sending") ~> ((pc = "es_check" /\ spinner = "stopped") \/ proc # "running")
    /\ [][Spinner => stepErr' = stepErr]_vars

\* executeStep is past its send with the action's error and a stopped spinner,
\* and no interrupt was involved.
C9_Witness ==
    /\ pc = "es_check" /\ spinner = "stopped" /\ stepErr = "err"
    /\ ~Interrupted

FatalCmds == {"rm", "init", "keys add", "add-genesis-account", "gentx",
              "collect-gentxs", "jq", "mv", "submit", "vote", "query"}

C11_Original ==
    /\ "saveState 1" \in cpp.failed => cpp.proposalJson = <<>> /\ cpp.launched = <<>>
    /\ "saveState 2" \in cpp.failed => cpp.launched = <<>>

\* No byte of s is outside UTF-8.
ValidUTF8(s) == \A i \in DOMAIN s : s[i] # "0xFF"

\* Every string of record r is valid UTF-8.
ValidRecord(r) ==
    /\ ValidUTF8(r.Phase) /\ ValidUTF8(r.ContractAddress)
    /\ ValidUTF8(r.ProposalTitle) /\ ValidUTF8(r.IPFSCID)
    /\ \A i \in DOMAIN r.BridgeWorkers.elems : ValidUTF8(r.BridgeWorkers.elems[i])

\* C12 (as stated): every record saved by saveState is loaded by the next
\* process equal in every field.
C12_Original ==
    codec.pc = "loaded" /\ ~codec.saveErr => codec.out = codec.rec

\* C12 (amended): every record whose strings are valid UTF-8 and that
\* saveState saved is loaded by the next process equal in every field: phase,
\* bridge_workers (nil or not, length, order), proposal_created and the rest.
C12_RoundTrip ==
    codec.pc = "loaded" /\ ~codec.saveErr /\ ValidRecord(codec.rec)
        => codec.out = codec.rec

\* A record with two different workers, one of them with an escaped
\* character, in the submission phase, has been saved and loaded.
C12_Witness ==
    /\ codec.pc = "loaded" /\ ~codec.saveErr
    /\ codec.rec.BridgeWorkers = Slice(<< <<"b">>, <<"<", "a">> >>)
    /\ codec.rec.Phase = <<"proposal_submission">>
    /\ codec.rec.ProposalCreated
    /\ codec.out = codec.rec

\* The positions of the commas of s, and its k-th entry: what lies between the
\* (k-1)-th comma (or the start) and the k-th comma (or the end).
CommaPos(s) == {i \in DOMAIN s : s[i] = ","}
EntryStart(s, k) ==
    IF k = 1 THEN 1
    ELSE 1 + CHOOSE i \in CommaPos(s) : Cardinality({j \in CommaPos(s) : j < i}) = k - 2
EntryEnd(s, k) ==
    IF k = Cardinality(CommaPos(s)) + 1 THEN Len(s)
    ELSE (CHOOSE i \in CommaPos(s) : Cardinality({j \in CommaPos(s) : j < i}) = k - 1) - 1
Entry(s, k) == SubSeq(s, EntryStart(s, k), EntryEnd(s, k))

\* e is x without the white space at its two ends.
IsTrimOf(e, x) ==
    /\ e = <<>> \/ (e[1] # " " /\ e[Len(e)] # " ")
    /\ \E i, j \in 0..Len(x) :
          /\ i + Len(e) + j = Len(x)
          /\ \A n \in 1..Len(x) :
                IF n <= i \/ n > i + Len(e) THEN x[n] = " " ELSE x[n] = e[n - i]

\* C13: once the worker list is built, BRIDGE_WORKERS is its source exactly
\* when it is non-empty, and then the list has one element per comma-separated
\* entry, in the order of the entries, each the entry without the white space
\* around it (an empty entry gives an empty element); "a, b ,c" gives a, b, c.
C13_WorkerList ==
    cpp.pc \notin {"off", "workers"} =>
        /\ cpp.from = "env" <=> cpp.envWorkers # <<>>
        /\ cpp.envWorkers # <<>> =>
              /\ Len(cpp.bridgeWorkers) = Cardinality(CommaPos(cpp.envWorkers)) + 1
              /\ \A k \in DOMAIN cpp.bridgeWorkers :
                    IsTrimOf(cpp.bridgeWorkers[k], Entry(cpp.envWorkers, k))
        /\ cpp.envWorkers = ExampleWorkers =>
              cpp.bridgeWorkers = << <<"a">>, <<"b">>, <<"c">> >>

\* The list has been built from BRIDGE_WORKERS = "a, b ,c".
C13_Witness ==
    /\ cpp.pc = "contract"
    /\ cpp.envWorkers = ExampleWorkers
    /\ cpp.from = "env"
    /\ Len(cpp.bridgeWorkers) = 3

\* The three variables are set in the environment.
EnvSupplied == cpp.envWorkers # <<>> /\ cpp.envContract # <<>> /\ cpp.envCID # <<>>

\* No write of a JSON file has failed.
FilesWritable == cpp.failed \cap {"metadata.json", "proposal.json"} = {}

\* C14: with IPFS_CID, BRIDGE_WORKERS and BRIDGE_CONTRACT_ADDRESS set, nothing
\* typed at any prompt and no file write failing, the function has written,
\* when it returns, a proposal.json whose metadata is "ipfs://" followed by
\* IPFS_CID and whose message carries the workers of BRIDGE_WORKERS (entry by
\* entry) and the address of BRIDGE_CONTRACT_ADDRESS.
C14_EnvProposal ==
    cpp.pc = "returned" /\ EnvSupplied /\ FilesWritable /\ cpp.submitInput \in {"none", ""}
        => /\ Len(cpp.proposalJson) = 1
           /\ cpp.proposalJson[1].metadata = <<"ipfs://">> \o cpp.envCID
           /\ cpp.proposalJson[1].bridge_contract_address = cpp.envContract
           /\ LET w == cpp.proposalJson[1].bridge_workers
              IN  /\ Len(w) = Cardinality(CommaPos(cpp.envWorkers)) + 1
                  /\ \A k \in DOMAIN w : IsTrimOf(w[k], Entry(cpp.envWorkers, k))

\* Such a run has returned, through the empty answer at the submit prompt.
C14_Witness ==
    /\ cpp.pc = "returned" /\ EnvSupplied /\ FilesWritable
    /\ cpp.submitInput = ""
    /\ cpp.envWorkers = <<"b", ",", "a">>
    /\ cpp.proposalJson # <<>>
    /\ cpp.launched = <<"startChain">>

\* C15: a CID that is not empty, from IPFS_CID or from the prompt, with any
\* prefix, ends (no file write failing) in a proposal.json whose metadata is
\* "ipfs://" followed by it; an empty CID ends the function with no
\* proposal.json, testing_state.json as it was, and no submission phase.
C15_CidWarnOnly ==
    cpp.pc = "returned" /\ cpp.cidFrom # "none" =>
        /\ cpp.cidFrom = "env" => cpp.cidInput = cpp.envCID
        /\ cpp.cidInput # <<>> /\ FilesWritable =>
              /\ Len(cpp.proposalJson) = 1
              /\ cpp.proposalJson[1].metadata = <<"ipfs://">> \o cpp.cidInput
        /\ cpp.cidInput = <<>> =>
              /\ cpp.proposalJson = <<>>
              /\ cpp.file = cpp.file0
              /\ cpp.state.Phase # "proposal_submission"
              /\ cpp.launched = <<>>

\* A CID that starts with neither Qm nor bafy was typed and proposal.json
\* carries it.
C15_Witness ==
    /\ cpp.pc = "returned"
    /\ cpp.cidFrom = "prompt"
    /\ cpp.cidInput = <<"z", "z">>
    /\ cpp.proposalJson # <<>>

\* C16 (as stated): a configuration key that .env sets and the process
\* environment does not reaches every setup command that takes it with the
\* value of .env.
C16_Original ==
    boot.pc = "done" =>
        \A i \in DOMAIN boot.cmdline : \A k \in DOMAIN boot.cmdline[i].args :
            boot.dotenv[k] # "" /\ boot.environ0[k] = ""
                => boot.cmdline[i].args[k] = boot.dotenv[k]

\* The setup step (1..8) a command belongs to, 0 for any other command: the
\* two keys commands are the one step of key generation.
StepIndex(c) ==
    CASE c = "rm" -> 1
      [] c = "init" -> 2
      [] c \in {"keys show", "keys add"} -> 3
      [] c = "add-genesis-account" -> 4
      [] c = "gentx" -> 5
      [] c = "collect-gentxs" -> 6
      [] c = "jq" -> 7
      [] c = "mv" -> 8
      [] OTHER -> 0

\* The commands of the setup steps among the commands invoked, in order.
IsStepCmd(c) == StepIndex(c.cmd) # 0
StepCmds == SelectSeq(cmds, IsStepCmd)

\* C17: the setup commands run in the order cleanup, init, key generation,
\* add-genesis-account, gentx, collect-gentxs, genesis modification, genesis
\* apply: the first is the cleanup, and each later one is the command of the
\* step after a command that succeeded (or the key creation after the failed
\* key lookup), so that every earlier step has succeeded when it starts.
\* Neither the proposal creation nor a start of the node comes before the
\* eighth has succeeded.
C17_SetupOrder ==
    /\ LET S == StepCmds
       IN  \A k \in DOMAIN S :
              IF k = 1 THEN S[k].cmd = "rm"
              ELSE \/ /\ S[k - 1].ok
                      /\ StepIndex(S[k].cmd) = StepIndex(S[k - 1].cmd) + 1
                      /\ S[k].cmd # "keys add"
                   \/ /\ S[k - 1].cmd = "keys show" /\ ~S[k - 1].ok
                      /\ S[k].cmd = "keys add"
    /\ \A i \in DOMAIN cmds :
          cmds[i].cmd \in {"pgrep", "start", "gnome-terminal", "xterm"} =>
              \E j \in 1..(i - 1) : cmds[j].cmd = "mv" /\ cmds[j].ok
    /\ pc \in {"cpp_collect", "cpp_save", "cpp_prompt", "cpp_go", "cpp_terminal"} =>
          \E j \in DOMAIN cmds : cmds[j].cmd = "mv" /\ cmds[j].ok

\* The eight steps are done, the key having been generated, and the proposal
\* creation begins.
C17_Witness ==
    /\ pc = "cpp_collect"
    /\ Len(cmds) = 9
    /\ cmds[4].cmd = "keys add"
    /\ cmds[9].cmd = "mv" /\ cmds[9].ok

\* Document d has something at path p: a leaf there or below it.
Has(d, p) == \E l \in d : IsPrefix(p, l[1])

\* Document d has an object at path p.
HasObject(d, p) == \E l \in d : IsPrefix(p, l[1]) /\ (l[1] = p => l[2] = "{}")

\* C18: for every genesis document with an object at app_state.gov.params,
\* when steps 7 and 8 have succeeded the three fields are "600s", "600s" and
\* "300s" and every leaf outside the three fields is there as it was, with
\* nothing added.
C18_GenesisFrame ==
    genesis.pc = "done" /\ HasObject(genesis.doc0, Params) =>
        /\ \A k \in Targets : <<Append(Params, k), TargetValue(k)>> \in genesis.doc
        /\ \A l \in genesis.doc \cup genesis.doc0 :
              (\A k \in Targets : ~IsPrefix(Append(Params, k), l[1])) /\ l[1] # Params
                  => l \in genesis.doc /\ l \in genesis.doc0

\* The steps have succeeded on a document that had min_deposit and a bank
\* supply beside a voting_period.
C18_Witness ==
    /\ genesis.pc = "done"
    /\ <<Append(Params, "voting_period"), "172800s">> \in genesis.doc0
    /\ <<Append(Params, "min_deposit"), "10uamf">> \in genesis.doc
    /\ <<<<"app_state", "bank", "supply">>, "1uamf">> \in genesis.doc
    /\ <<Append(Params, "voting_period"), "600s">> \in genesis.doc

\* C19 (as stated): when one of the three keys is missing from the document,
\* step 7 fails, the run ends there and genesis.json is as it was, with no
\* key created.
C19_Original ==
    genesis.pc # "jq" /\ (\E k \in Targets : ~Has(genesis.doc0, Append(Params, k)))
        => /\ genesis.pc = "exit1"
           /\ genesis.doc = genesis.doc0
           /\ genesis.tmp = <<>>

\* C20 (as stated): a failed fetch of the proposal status does not end the
\* run: unless an interrupt ends it, the tool is still running after a
\* status query that failed.
C20_Original ==
    \A i \in DOMAIN cmds :
        cmds[i].cmd = "query" /\ ~cmds[i].ok /\ ~Interrupted => proc = "running"

\* C21: when the submit-proposal, vote or status-query command has failed in
\* a run that no interrupt has reached, the run is at or on its way to
\* os.Exit(1) with that command its last, and testing_state.json is as the
\* run found it, with phase "proposal_submission": the next startup enters
\* the submission sequence again.
C21_FailedTxKeepsState ==
    \A i \in DOMAIN cmds :
        (cmds[i].cmd \in SubmissionCmds /\ ~cmds[i].ok /\ ~Interrupted) =>
            /\ i = Len(cmds)
            /\ proc = "exit1" \/ (proc = "running" /\ pc \in {"es_sending", "es_check"})
            /\ file = startFile
            /\ SaysSubmission(file)
            /\ Dispatch(loadState(file)) = "submission"

\* The vote has failed after a successful submit and the run has ended with
\* status 1.
C21_Witness ==
    /\ proc = "exit1" /\ ~Interrupted
    /\ Len(cmds) = 2
    /\ cmds[1].cmd = "submit" /\ cmds[1].ok
    /\ cmds[2].cmd = "vote" /\ ~cmds[2].ok
    /\ file = startFile

\* C22 (as stated): what executeStep prints as the command of a step is the
\* command the step runs, for every step and every configuration.
C22_Original ==
    /\ \A i \in DOMAIN boot.preview : boot.preview[i] = boot.cmdline[i]
    /\ \A i \in DOMAIN boot.govPreview : boot.govPreview[i] = boot.gov[i]

\* C28 (as stated): within one run the chain id given to the setup commands
\* (init, gentx) is the chain id given to the governance transactions
\* (submit-proposal, vote), whatever the environment and the .env file hold.
C28_Original ==
    boot.pc = "done" =>
        \A i \in DOMAIN boot.cmdline, j \in DOMAIN boot.gov :
            "CHAIN_ID" \in DOMAIN boot.cmdline[i].args =>
                boot.cmdline[i].args["CHAIN_ID"] = boot.gov[j].args["CHAIN_ID"]

\* The positions of the command log where command c was invoked.
Invocations(c) == {i \in DOMAIN cmds : cmds[i].cmd = c}

\* C23 (as stated): one run of the setup sequence invokes `junctiond start`
\* at most once, and not at all when startChain found a node running.
C23_Original ==
    /\ Cardinality(Invocations("start")) <= 1
    /\ (\E i \in Invocations("pgrep") : cmds[i].ok) => Invocations("start") = {}

\* C24 (as stated): one run of the submission phase invokes `tx gov vote` at
\* most once.
C24_Original ==
    Cardinality(Invocations("vote")) <= 1

\* C27 (as stated): when a setup run ends by main returning, no interrupt
\* having come, no node the run started is still running.
C27_Original ==
    (proc = "exit0" /\ handler = "setup" /\ ~Interrupted) =>
        \A c \in Children : child[c] # "running"

\* C26: from no state file on, through any sequence of setup runs, a state
\* file that exists says phase "proposal_submission" exactly when it says
\* proposal_created, and then the run that wrote it has written proposal.json
\* before.
C26_PhaseIffCreated ==
    cpp.file.kind = "ok" =>
        /\ SaysSubmission(cpp.file) <=> cpp.file.rec.ProposalCreated
        /\ SaysSubmission(cpp.file) => cpp.written /\ cpp.proposalJson # <<>>

\* A later run sets the phase, after a run whose proposal.json could not be
\* written and with its own first save failing.
C26_Witness ==
    /\ cpp.pc = "returned" /\ cpp.run = MaxRuns
    /\ SaysSubmission(cpp.file) /\ cpp.file.rec.ProposalCreated
    /\ cpp.written /\ "saveState 1" \in cpp.failed

\* C29 (as stated): the single-run script issues no submit-proposal and no
\* vote before it has issued the node start of the same run.
C29_Original ==
    \A i \in DOMAIN single.cmds :
        single.cmds[i].cmd \in {"submit", "vote"} =>
            \E j \in 1..(i - 1) : single.cmds[j].cmd = "start"

\* In command log l every vote comes after a submit-proposal that succeeded.
VoteAfterSubmit(l) ==
    \A i \in DOMAIN l :
        l[i].cmd = "vote" => \E j \in 1..(i - 1) : l[j].cmd = "submit" /\ l[j].ok

\* Command log l holds a vote that succeeded.
Voted(l) == \E j \in DOMAIN l : l[j].cmd = "vote" /\ l[j].ok

\* C25: in both scripts a run invokes `tx gov vote` only after a
\* submit-proposal of the run has succeeded, and is inside waitForVotingPeriod
\* (or past it, at the status query) only after a vote of the run has succeeded.
C25_TxOrder ==
    /\ VoteAfterSubmit(cmds)
    /\ (pc \in {"wv_start", "wv_sleep", "wv_sending", "wv_done"} \/ step = "query")
           => Voted(cmds)
    /\ single.pc # "off" =>
          /\ VoteAfterSubmit(single.cmds)
          /\ (single.pc = "wv_sleep" \/ single.step = "query") => Voted(single.cmds)

\* The single-run script is waiting for the voting period: eight setup steps,
\* a submit and a vote behind it.
C25_Witness ==
    /\ single.pc = "wv_sleep" /\ Len(single.cmds) = 10
    /\ single.cmds[9].cmd = "submit" /\ single.cmds[10].cmd = "vote"
====
